---- MODULE Spec2Model ----
(***************************************************************************)
(* NEON backend layer support (NeonLayerSupport.cpp) and the activation    *)
(* workload (NeonActivationFloat32Workload.cpp).                           *)
(*                                                                         *)
(* The Is<Operator>SupportedNeon predicates are pure functions of their    *)
(* arguments and of the build flag ARMCOMPUTENEON_ENABLED.  Each is an     *)
(* operator over a call context: the caller's reasonIfUnsupported pointer  *)
(* and string, and counters of what the call consulted.  Validate          *)
(* functions of the kernel library are external: the status they return    *)
(* for the forwarded arguments is an input of the call (native).           *)
(***************************************************************************)
EXTENDS Naturals, Sequences, FiniteSets

VARIABLES neonEnabled, pc, call, workload, storage

vars == <<neonEnabled, pc, call, workload, storage>>

----------------------------------------------------------------------------
(* Bounds of the model *)

MaxNormSize == 5
MaxStride == 4
MaxPad == 1
MaxKernel == 2
MaxHandles == 2
MaxRuns == 2
MaxValue == 1

----------------------------------------------------------------------------
(* Data *)

DataTypes == {"Float16", "Float32", "QuantisedAsymm8", "Signed32"}

TensorInfos == [dataType : DataTypes]

GetDataType(info) == info.dataType

ErrorCodes == {"OK", "RUNTIME_ERROR", "UNSUPPORTED_EXTENSION_USE"}

NativeDescriptions == {"", "native: configuration rejected"}

\* arm_compute::Status values a kernel validate function can return
Statuses == [code : ErrorCodes, desc : NativeDescriptions]

BackendUnavailableText == "The armnn library has been built without NEON support"
MethodText == "Unsupported normalisation method type, only LocalBrightness is supported"
OddText == "Normalization size must be an odd number."
LogisticText == "Neon: Logistic Activations unsupported with QAsymm8 data type."
DataTypeText == "data type not supported"

CallerTexts == {"", "caller text"}

\* reasonIfUnsupported as the caller passes it: a null pointer, or a string
ReasonArgs == {[ptr |-> FALSE, reason |-> ""]} \cup [ptr : {TRUE}, reason : CallerTexts]

ActivationFunctions == {"Sigmoid", "ReLu", "Linear"}

ActivationDescriptors == [m_Function : ActivationFunctions]

NormalizationMethods == {"LocalBrightness", "LocalContrast"}

NormalizationDescriptors == [m_NormMethodType : NormalizationMethods, m_NormSize : 1..MaxNormSize]

Strides == 0..MaxStride
Pads == 0..MaxPad
KernelDims == 1..MaxKernel

Convolution2dDescriptors ==
    [m_StrideX : Strides, m_StrideY : Strides,
     m_PadLeft : Pads, m_PadRight : Pads, m_PadTop : Pads, m_PadBottom : Pads,
     m_BiasEnabled : BOOLEAN]

\* weights: data type and the shape dimensions [2] and [3]
WeightInfos == [dataType : DataTypes, shape2 : KernelDims, shape3 : KernelDims]

----------------------------------------------------------------------------
(* Call context *)

Ctx(r) == [ptr |-> r.ptr, reason |-> r.reason,
           validateCalls |-> 0, nativeCalls |-> 0, matrixCalls |-> 0, nullDeref |-> FALSE]

\* *reasonIfUnsupported = text : dereferences the pointer
SetReason(c, text) ==
    IF c.ptr THEN [c EXCEPT !.reason = text] ELSE [c EXCEPT !.nullDeref = TRUE]

Ret(b, c) == [ret |-> b, c |-> c]

----------------------------------------------------------------------------
(* NeonActivationFloat32Workload.cpp: validation *)

Status(code, desc, n) == [code |-> code, desc |-> desc, nativeCalls |-> n]

\* A validate function of the kernel library, returning native for the
\* arguments forwarded to it.
NativeValidate(native) == Status(native.code, native.desc, 1)

ConvertActivationDescriptorToAclActivationLayerInfo(descriptor) ==
    [activation |-> CASE descriptor.m_Function = "Sigmoid" -> "LOGISTIC"
                      [] descriptor.m_Function = "ReLu" -> "RELU"
                      [] descriptor.m_Function = "Linear" -> "LINEAR"]

\* mutant: the status of the kernel library is dropped
NeonActivationWorkloadValidate_DropsNative(input, output, descriptor, native) ==
    LET activationLayerInfo == ConvertActivationDescriptorToAclActivationLayerInfo(descriptor)
    IN  IF GetDataType(input) = "QuantisedAsymm8" /\ activationLayerInfo.activation = "LOGISTIC"
        THEN Status("RUNTIME_ERROR", LogisticText, 0)
        ELSE Status("OK", "", 1)

\* mutant: the quantized logistic case is forwarded like any other
NeonActivationWorkloadValidate_NoLogisticCheck(input, output, descriptor, native) ==
    NativeValidate(native)

\* native: the status of NEActivationLayer::validate for (input, output, descriptor)
NeonActivationWorkloadValidate(input, output, descriptor, native) ==
    LET activationLayerInfo == ConvertActivationDescriptorToAclActivationLayerInfo(descriptor)
    IN  IF GetDataType(input) = "QuantisedAsymm8" /\ activationLayerInfo.activation = "LOGISTIC"
        THEN Status("RUNTIME_ERROR", LogisticText, 0)
        ELSE NativeValidate(native)

----------------------------------------------------------------------------
(* NeonLayerSupport.cpp *)

\* mutant: the bottom padding is not looked at
IsNeonDirectConvolutionPreferred_NoPadBottom(weightInfo, desc) ==
    /\ GetDataType(weightInfo) = "Float32"
    /\ desc.m_StrideX \in {1, 2, 3}
    /\ desc.m_StrideY \in {1, 2, 3}
    /\ weightInfo.shape2 = 1
    /\ weightInfo.shape3 = 1
    /\ ~(desc.m_PadLeft > 0 \/ desc.m_PadRight > 0 \/ desc.m_PadTop > 0)
    /\ desc.m_BiasEnabled

IsNeonDirectConvolutionPreferred(weightInfo, desc) ==
    LET dataTypeSupported == GetDataType(weightInfo) = "Float32"
        strideSupported ==
            /\ (desc.m_StrideX = 1 \/ desc.m_StrideX = 2 \/ desc.m_StrideX = 3)
            /\ (desc.m_StrideY = 1 \/ desc.m_StrideY = 2 \/ desc.m_StrideY = 3)
        paddingLargerThan(conv2ddesc, value) ==
            \/ conv2ddesc.m_PadLeft > value
            \/ conv2ddesc.m_PadRight > value
            \/ conv2ddesc.m_PadTop > value
            \/ conv2ddesc.m_PadBottom > value
        sizeAndPaddingSupported ==
            /\ weightInfo.shape2 = 1
            /\ weightInfo.shape3 = 1
            /\ ~paddingLargerThan(desc, 0)
    IN  dataTypeSupported /\ strideSupported /\ sizeAndPaddingSupported /\ desc.m_BiasEnabled

IsNeonNormalizationDescParamsSupported(c, parameters) ==
    IF parameters.m_NormMethodType # "LocalBrightness"
    THEN Ret(FALSE, IF c.ptr THEN SetReason(c, MethodText) ELSE c)
    ELSE IF parameters.m_NormSize % 2 = 0
         THEN Ret(FALSE, IF c.ptr THEN SetReason(c, OddText) ELSE c)
         ELSE Ret(TRUE, c)

IsNeonBackendSupported(c) ==
    IF neonEnabled
    THEN Ret(TRUE, c)
    ELSE Ret(FALSE, IF c.ptr THEN SetReason(c, BackendUnavailableText) ELSE c)

\* The sentinels handed to the data type dispatch: always true, always false.
SentinelFunc(c, f) ==
    IF f = "TrueFunc"
    THEN Ret(TRUE, c)
    ELSE Ret(FALSE, IF c.ptr THEN SetReason(c, DataTypeText) ELSE c)

\* The generic dispatch: invokes the function of the tensor's data type,
\* and rejects a data type that is not listed.
IsSupportedForDataTypeGeneric(c, dataType, float16FuncPtr, float32FuncPtr, uint8FuncPtr) ==
    LET m == [c EXCEPT !.matrixCalls = @ + 1]
    IN  CASE dataType = "Float16" -> SentinelFunc(m, float16FuncPtr)
          [] dataType = "Float32" -> SentinelFunc(m, float32FuncPtr)
          [] dataType = "QuantisedAsymm8" -> SentinelFunc(m, uint8FuncPtr)
          [] OTHER -> Ret(FALSE, m)

IsSupportedForDataTypeNeon(c, dataType, floatFuncPtr, uint8FuncPtr) ==
    LET b == IsNeonBackendSupported(c)
    IN  IF b.ret
        THEN IsSupportedForDataTypeGeneric(b.c, dataType, floatFuncPtr, floatFuncPtr, uint8FuncPtr)
        ELSE b

\* mutant: the description is stored whatever the error code
IsWorkloadSupported_AlwaysWrites(aclStatus, c) ==
    LET called == [c EXCEPT !.validateCalls = @ + 1,
                            !.nativeCalls = @ + aclStatus.nativeCalls]
        supported == aclStatus.code = "OK"
    IN  Ret(supported, IF called.ptr THEN SetReason(called, aclStatus.desc) ELSE called)

\* mutant: only RUNTIME_ERROR counts as a failure
IsWorkloadSupported_OnlyRuntimeError(aclStatus, c) ==
    LET called == [c EXCEPT !.validateCalls = @ + 1,
                            !.nativeCalls = @ + aclStatus.nativeCalls]
        supported == aclStatus.code # "RUNTIME_ERROR"
    IN  Ret(supported,
            IF ~supported /\ called.ptr THEN SetReason(called, aclStatus.desc) ELSE called)

\* aclStatus is what func(args...) returns, with the number of calls of the
\* kernel library that evaluating it made; the call of func is counted here.
IsWorkloadSupported(aclStatus, c) ==
    LET called == [c EXCEPT !.validateCalls = @ + 1,
                            !.nativeCalls = @ + aclStatus.nativeCalls]
        supported == aclStatus.code = "OK"
    IN  Ret(supported,
            IF ~supported /\ called.ptr THEN SetReason(called, aclStatus.desc) ELSE called)

\* The macro: with the backend built in it forwards to IsWorkloadSupported,
\* without it func is never evaluated.
FORWARD_WORKLOAD_VALIDATE_FUNC(aclStatus, c) ==
    IF neonEnabled THEN IsWorkloadSupported(aclStatus, c) ELSE IsNeonBackendSupported(c)

\* Validate functions other than NeonActivationWorkloadValidate are defined
\* outside these two files: each forwards its arguments to the kernel library.

IsActivationSupportedNeon(input, output, descriptor, native, c) ==
    FORWARD_WORKLOAD_VALIDATE_FUNC(
        NeonActivationWorkloadValidate(input, output, descriptor, native), c)

IsAdditionSupportedNeon(input0, input1, output, native, c) ==
    FORWARD_WORKLOAD_VALIDATE_FUNC(NativeValidate(native), c)

IsBatchNormalizationSupportedNeon(input, output, descriptor, native, c) ==
    FORWARD_WORKLOAD_VALIDATE_FUNC(NativeValidate(native), c)

IsConstantSupportedNeon(output, c) ==
    IsSupportedForDataTypeNeon(c, GetDataType(output), "TrueFunc", "TrueFunc")

IsConvolution2dSupportedNeon(input, output, descriptor, weights, native, c) ==
    FORWARD_WORKLOAD_VALIDATE_FUNC(NativeValidate(native), c)

IsDepthwiseConvolutionSupportedNeon(input, output, descriptor, weights, native, c) ==
    FORWARD_WORKLOAD_VALIDATE_FUNC(NativeValidate(native), c)

\* mutant: the quantized input is forwarded like any other
IsFullyConnectedSupportedNeon_NoU8Check(input, output, weights, native, c) ==
    FORWARD_WORKLOAD_VALIDATE_FUNC(NativeValidate(native), c)

IsFullyConnectedSupportedNeon(input, output, weights, native, c) ==
    IF GetDataType(input) = "QuantisedAsymm8"
    THEN Ret(FALSE, c)
    ELSE FORWARD_WORKLOAD_VALIDATE_FUNC(NativeValidate(native), c)

IsInputSupportedNeon(input, c) ==
    IsSupportedForDataTypeNeon(c, GetDataType(input), "TrueFunc", "TrueFunc")

IsL2NormalizationSupportedNeon(input, output, native, c) ==
    FORWARD_WORKLOAD_VALIDATE_FUNC(NativeValidate(native), c)

\* inputs[0] is the only element read
IsMergerSupportedNeon(inputs, c) ==
    IsSupportedForDataTypeNeon(c, GetDataType(inputs[1]), "TrueFunc", "TrueFunc")

IsMultiplicationSupportedNeon(input0, input1, output, native, c) ==
    FORWARD_WORKLOAD_VALIDATE_FUNC(NativeValidate(native), c)

IsNormalizationSupportedNeon(input, output, descriptor, native, c) ==
    FORWARD_WORKLOAD_VALIDATE_FUNC(NativeValidate(native), c)

IsOutputSupportedNeon(output, c) ==
    IsSupportedForDataTypeNeon(c, GetDataType(output), "TrueFunc", "TrueFunc")

IsPermuteSupportedNeon(input, output, native, c) ==
    FORWARD_WORKLOAD_VALIDATE_FUNC(NativeValidate(native), c)

IsPooling2dSupportedNeon(input, output, native, c) ==
    FORWARD_WORKLOAD_VALIDATE_FUNC(NativeValidate(native), c)

\* mutant: decided by the data type, as Reshape is
IsResizeBilinearSupportedNeon_ByDataType(input, c) ==
    IsSupportedForDataTypeNeon(c, GetDataType(input), "TrueFunc", "TrueFunc")

IsResizeBilinearSupportedNeon(input, c) == Ret(FALSE, c)

IsSoftmaxSupportedNeon(input, output, native, c) ==
    FORWARD_WORKLOAD_VALIDATE_FUNC(NativeValidate(native), c)

IsSplitterSupportedNeon(input, c) ==
    IsSupportedForDataTypeNeon(c, GetDataType(input), "TrueFunc", "TrueFunc")

IsFakeQuantizationSupportedNeon(input, c) == Ret(FALSE, c)

IsReshapeSupportedNeon(input, c) ==
    IsSupportedForDataTypeNeon(c, GetDataType(input), "TrueFunc", "TrueFunc")

IsFloorSupportedNeon(input, output, c) ==
    LET b == IsNeonBackendSupported(c)
    IN  IF b.ret
        THEN IsSupportedForDataTypeGeneric(b.c, GetDataType(input),
                                           "FalseFuncF16", "TrueFunc", "FalseFuncU8")
        ELSE b

\* every argument is ignored; input, output and one optional tensor stand for them
IsLstmSupportedNeon(input, output, inputToInputWeights, c) == Ret(FALSE, c)

IsConvertFp16ToFp32SupportedNeon(input, output, c) == Ret(TRUE, c)

IsConvertFp32ToFp16SupportedNeon(input, output, c) == Ret(TRUE, c)

----------------------------------------------------------------------------
(* The caller: one query at a time.  call records the last query, its     *)
(* arguments and what it returned; Return discards it.                    *)

NoStatus == [code |-> "none", desc |-> ""]

NoCall == [op |-> "none"]

BaseWeights == [dataType |-> "Float32", shape2 |-> 1, shape3 |-> 1]

BaseConvolution ==
    [m_StrideX |-> 1, m_StrideY |-> 1, m_PadLeft |-> 0, m_PadRight |-> 0,
     m_PadTop |-> 0, m_PadBottom |-> 0, m_BiasEnabled |-> TRUE]

\* Convolutions that differ from the 1x1, stride 1, unpadded, biased float32
\* one in at most one attribute.
ConvolutionProbes ==
    ({BaseWeights} \X
        ({[BaseConvolution EXCEPT !.m_StrideX = v] : v \in Strides}
         \cup {[BaseConvolution EXCEPT !.m_StrideY = v] : v \in Strides}
         \cup {[BaseConvolution EXCEPT !.m_PadLeft = v] : v \in Pads}
         \cup {[BaseConvolution EXCEPT !.m_PadRight = v] : v \in Pads}
         \cup {[BaseConvolution EXCEPT !.m_PadTop = v] : v \in Pads}
         \cup {[BaseConvolution EXCEPT !.m_PadBottom = v] : v \in Pads}
         \cup {[BaseConvolution EXCEPT !.m_BiasEnabled = v] : v \in BOOLEAN}))
    \cup (({[BaseWeights EXCEPT !.dataType = v] : v \in DataTypes}
           \cup {[BaseWeights EXCEPT !.shape2 = v] : v \in KernelDims}
           \cup {[BaseWeights EXCEPT !.shape3 = v] : v \in KernelDims})
          \X {BaseConvolution})

Invoke(name, a, r, native, out) ==
    /\ pc' = "returned"
    /\ call' = [op |-> name, args |-> a, ptr |-> r.ptr, reasonIn |-> r.reason,
                native |-> native, ret |-> out.ret, reason |-> out.c.reason,
                validateCalls |-> out.c.validateCalls, nativeCalls |-> out.c.nativeCalls,
                matrixCalls |-> out.c.matrixCalls, nullDeref |-> out.c.nullDeref]
    /\ UNCHANGED <<neonEnabled, workload, storage>>

Activation ==
    /\ pc = "idle"
    /\ \E i \in TensorInfos, o \in TensorInfos, d \in ActivationDescriptors,
       st \in Statuses, r \in ReasonArgs :
        Invoke("Activation", [input |-> i, output |-> o, descriptor |-> d], r, st,
               IsActivationSupportedNeon(i, o, d, st, Ctx(r)))

Addition ==
    /\ pc = "idle"
    /\ \E i \in TensorInfos, o \in TensorInfos, st \in Statuses, r \in ReasonArgs :
        Invoke("Addition", [input |-> i, output |-> o], r, st,
               IsAdditionSupportedNeon(i, i, o, st, Ctx(r)))

BatchNormalization ==
    /\ pc = "idle"
    /\ \E i \in TensorInfos, o \in TensorInfos, st \in Statuses, r \in ReasonArgs :
        Invoke("BatchNormalization", [input |-> i, output |-> o], r, st,
               IsBatchNormalizationSupportedNeon(i, o, [m_Eps |-> 0], st, Ctx(r)))

Constant ==
    /\ pc = "idle"
    /\ \E o \in TensorInfos, r \in ReasonArgs :
        Invoke("Constant", [output |-> o], r, NoStatus, IsConstantSupportedNeon(o, Ctx(r)))

Convolution2d ==
    /\ pc = "idle"
    /\ \E i \in TensorInfos, p \in ConvolutionProbes, st \in Statuses, r \in ReasonArgs :
        Invoke("Convolution2d", [input |-> i, weights |-> p[1], descriptor |-> p[2]], r, st,
               IsConvolution2dSupportedNeon(i, i, p[2], p[1], st, Ctx(r)))

DepthwiseConvolution ==
    /\ pc = "idle"
    /\ \E i \in TensorInfos, o \in TensorInfos, st \in Statuses, r \in ReasonArgs :
        Invoke("DepthwiseConvolution", [input |-> i, output |-> o], r, st,
               IsDepthwiseConvolutionSupportedNeon(i, o, BaseConvolution, BaseWeights, st, Ctx(r)))

FullyConnected ==
    /\ pc = "idle"
    /\ \E i \in TensorInfos, o \in TensorInfos, st \in Statuses, r \in ReasonArgs :
        Invoke("FullyConnected", [input |-> i, output |-> o], r, st,
               IsFullyConnectedSupportedNeon(i, o, i, st, Ctx(r)))

Input ==
    /\ pc = "idle"
    /\ \E i \in TensorInfos, r \in ReasonArgs :
        Invoke("Input", [input |-> i], r, NoStatus, IsInputSupportedNeon(i, Ctx(r)))

L2Normalization ==
    /\ pc = "idle"
    /\ \E i \in TensorInfos, o \in TensorInfos, st \in Statuses, r \in ReasonArgs :
        Invoke("L2Normalization", [input |-> i, output |-> o], r, st,
               IsL2NormalizationSupportedNeon(i, o, st, Ctx(r)))

Merger ==
    /\ pc = "idle"
    /\ \E i \in TensorInfos, j \in TensorInfos, r \in ReasonArgs :
        Invoke("Merger", [inputs |-> <<i, j>>], r, NoStatus, IsMergerSupportedNeon(<<i, j>>, Ctx(r)))

Multiplication ==
    /\ pc = "idle"
    /\ \E i \in TensorInfos, o \in TensorInfos, st \in Statuses, r \in ReasonArgs :
        Invoke("Multiplication", [input |-> i, output |-> o], r, st,
               IsMultiplicationSupportedNeon(i, i, o, st, Ctx(r)))

Normalization ==
    /\ pc = "idle"
    /\ \E i \in TensorInfos, d \in NormalizationDescriptors, st \in Statuses, r \in ReasonArgs :
        Invoke("Normalization", [input |-> i, descriptor |-> d], r, st,
               IsNormalizationSupportedNeon(i, i, d, st, Ctx(r)))

Output ==
    /\ pc = "idle"
    /\ \E o \in TensorInfos, r \in ReasonArgs :
        Invoke("Output", [output |-> o], r, NoStatus, IsOutputSupportedNeon(o, Ctx(r)))

Permute ==
    /\ pc = "idle"
    /\ \E i \in TensorInfos, o \in TensorInfos, st \in Statuses, r \in ReasonArgs :
        Invoke("Permute", [input |-> i, output |-> o], r, st,
               IsPermuteSupportedNeon(i, o, st, Ctx(r)))

Pooling2d ==
    /\ pc = "idle"
    /\ \E i \in TensorInfos, o \in TensorInfos, st \in Statuses, r \in ReasonArgs :
        Invoke("Pooling2d", [input |-> i, output |-> o], r, st,
               IsPooling2dSupportedNeon(i, o, st, Ctx(r)))

ResizeBilinear ==
    /\ pc = "idle"
    /\ \E i \in TensorInfos, r \in ReasonArgs :
        Invoke("ResizeBilinear", [input |-> i], r, NoStatus,
               IsResizeBilinearSupportedNeon(i, Ctx(r)))

Softmax ==
    /\ pc = "idle"
    /\ \E i \in TensorInfos, o \in TensorInfos, st \in Statuses, r \in ReasonArgs :
        Invoke("Softmax", [input |-> i, output |-> o], r, st,
               IsSoftmaxSupportedNeon(i, o, st, Ctx(r)))

Splitter ==
    /\ pc = "idle"
    /\ \E i \in TensorInfos, r \in ReasonArgs :
        Invoke("Splitter", [input |-> i], r, NoStatus, IsSplitterSupportedNeon(i, Ctx(r)))

FakeQuantization ==
    /\ pc = "idle"
    /\ \E i \in TensorInfos, r \in ReasonArgs :
        Invoke("FakeQuantization", [input |-> i], r, NoStatus,
               IsFakeQuantizationSupportedNeon(i, Ctx(r)))

Reshape ==
    /\ pc = "idle"
    /\ \E i \in TensorInfos, r \in ReasonArgs :
        Invoke("Reshape", [input |-> i], r, NoStatus, IsReshapeSupportedNeon(i, Ctx(r)))

Floor ==
    /\ pc = "idle"
    /\ \E i \in TensorInfos, o \in TensorInfos, r \in ReasonArgs :
        Invoke("Floor", [input |-> i, output |-> o], r, NoStatus,
               IsFloorSupportedNeon(i, o, Ctx(r)))

\* an absent optional tensor is the null pointer
Lstm ==
    /\ pc = "idle"
    /\ \E i \in TensorInfos, o \in TensorInfos, w \in TensorInfos \cup {"nullptr"},
       r \in ReasonArgs :
        Invoke("Lstm", [input |-> i, output |-> o, inputToInputWeights |-> w], r, NoStatus,
               IsLstmSupportedNeon(i, o, w, Ctx(r)))

ConvertFp16ToFp32 ==
    /\ pc = "idle"
    /\ \E i \in TensorInfos, o \in TensorInfos, r \in ReasonArgs :
        Invoke("ConvertFp16ToFp32", [input |-> i, output |-> o], r, NoStatus,
               IsConvertFp16ToFp32SupportedNeon(i, o, Ctx(r)))

ConvertFp32ToFp16 ==
    /\ pc = "idle"
    /\ \E i \in TensorInfos, o \in TensorInfos, r \in ReasonArgs :
        Invoke("ConvertFp32ToFp16", [input |-> i, output |-> o], r, NoStatus,
               IsConvertFp32ToFp16SupportedNeon(i, o, Ctx(r)))

\* The preference query takes no reason output.
DirectConvolutionPreferred ==
    /\ pc = "idle"
    /\ \E w \in WeightInfos, d \in Convolution2dDescriptors :
        /\ pc' = "returned"
        /\ call' = [op |-> "DirectConvolutionPreferred", args |-> [weights |-> w, descriptor |-> d],
                    ret |-> IsNeonDirectConvolutionPreferred(w, d)]
        /\ UNCHANGED <<neonEnabled, workload, storage>>

Return ==
    /\ pc = "returned"
    /\ pc' = "idle"
    /\ call' = NoCall
    /\ UNCHANGED <<neonEnabled, workload, storage>>

----------------------------------------------------------------------------
(* NeonActivationFloat32Workload: construction, statement by statement,  *)
(* and Execute.  workload.at is the constructor's position; "Fatal" is   *)
(* a constructor that threw, "Ready" a constructed workload.             *)

NoWorkload == [at |-> "None"]

\* a local that is not initialised yet, a reference that is not taken yet
Unset == [activation |-> "unset"]
Unbound == <<"unbound", 0>>
Dangling == <<"dangling", 0>>

Values == 0..MaxValue

InputHandles(n) == [k \in 1..n |-> <<"input", k>>]
OutputHandles(n) == [k \in 1..n |-> <<"output", k>>]

\* QueueDescriptor::ValidateInputsOutputs: the exact numbers of handles
ValidateInputsOutputs(data, numExpectedIn, numExpectedOut) ==
    Len(data.m_Inputs) = numExpectedIn /\ Len(data.m_Outputs) = numExpectedOut

\* NEActivationLayer::configure validates its arguments as
\* NEActivationLayer::validate does: native is the library's status for them.
ConfigureAccepts(native) == native.code = "OK"

\* element [0] of a vector of handles; of an empty vector it is a dangling reference
FirstHandle(handles) == IF Len(handles) >= 1 THEN handles[1] ELSE Dangling

\* The base class constructor stores the queue descriptor and the workload info.
Construct ==
    /\ neonEnabled
    /\ workload.at = "None"
    /\ \E nIn \in 0..MaxHandles, nOut \in 0..MaxHandles, i \in TensorInfos, o \in TensorInfos,
          d \in ActivationDescriptors, st \in Statuses :
        workload' = [at |-> "ValidateInputsOutputs",
                     m_Data |-> [m_Inputs |-> InputHandles(nIn),
                                 m_Outputs |-> OutputHandles(nOut),
                                 m_Parameters |-> d],
                     info |-> [input |-> i, output |-> o],
                     native |-> st,
                     activationLayerInfo |-> Unset,
                     input |-> Unbound,
                     output |-> Unbound,
                     m_ActivationLayer |-> [configured |-> FALSE],
                     runs |-> 0]
    /\ \E v \in Values : storage' = [input |-> v, output |-> 0]
    /\ UNCHANGED <<neonEnabled, pc, call>>

\* mutant: the numbers of handles are not validated
CtorValidateInputsOutputs_Skipped ==
    /\ workload.at = "ValidateInputsOutputs"
    /\ workload' = [workload EXCEPT !.at = "Convert"]
    /\ UNCHANGED <<neonEnabled, pc, call, storage>>

CtorValidateInputsOutputs ==
    /\ workload.at = "ValidateInputsOutputs"
    /\ workload' = [workload EXCEPT !.at = IF ValidateInputsOutputs(workload.m_Data, 1, 1)
                                           THEN "Convert" ELSE "Fatal"]
    /\ UNCHANGED <<neonEnabled, pc, call, storage>>

CtorConvertDescriptor ==
    /\ workload.at = "Convert"
    /\ workload' = [workload EXCEPT
            !.at = "Bind",
            !.activationLayerInfo =
                ConvertActivationDescriptorToAclActivationLayerInfo(workload.m_Data.m_Parameters)]
    /\ UNCHANGED <<neonEnabled, pc, call, storage>>

CtorBindTensors ==
    /\ workload.at = "Bind"
    /\ workload' = [workload EXCEPT !.at = "Configure",
                                    !.input = FirstHandle(workload.m_Data.m_Inputs),
                                    !.output = FirstHandle(workload.m_Data.m_Outputs)]
    /\ UNCHANGED <<neonEnabled, pc, call, storage>>

CtorConfigure ==
    /\ workload.at = "Configure"
    /\ workload' =
          IF ConfigureAccepts(workload.native)
          THEN [workload EXCEPT !.at = "Ready",
                                !.m_ActivationLayer =
                                    [configured |-> TRUE,
                                     input |-> workload.input,
                                     output |-> workload.output,
                                     info |-> workload.activationLayerInfo]]
          ELSE [workload EXCEPT !.at = "Fatal"]
    /\ UNCHANGED <<neonEnabled, pc, call, storage>>

\* mutant: each run configures the kernel again, in place
Execute_Reconfigures ==
    /\ workload.at = "Ready"
    /\ workload.runs < MaxRuns
    /\ \E v \in Values : storage' = [storage EXCEPT !.output = v]
    /\ workload' = [workload EXCEPT !.runs = @ + 1,
                                    !.m_ActivationLayer.input = workload.output]
    /\ UNCHANGED <<neonEnabled, pc, call>>

\* m_ActivationLayer.run(): the kernel writes the output tensor
Execute ==
    /\ workload.at = "Ready"
    /\ workload.runs < MaxRuns
    /\ \E v \in Values : storage' = [storage EXCEPT !.output = v]
    /\ workload' = [workload EXCEPT !.runs = @ + 1]
    /\ UNCHANGED <<neonEnabled, pc, call>>

\* the plan is torn down, or the constructor's exception has unwound
Destroy ==
    /\ workload.at \in {"Ready", "Fatal"}
    /\ workload' = NoWorkload
    /\ UNCHANGED <<neonEnabled, pc, call, storage>>

Init ==
    /\ neonEnabled \in BOOLEAN
    /\ pc = "idle"
    /\ call = NoCall
    /\ workload = NoWorkload
    /\ storage = [input |-> 0, output |-> 0]

Next ==
    \/ Activation
    \/ Addition
    \/ BatchNormalization
    \/ Constant
    \/ Convolution2d
    \/ DepthwiseConvolution
    \/ FullyConnected
    \/ Input
    \/ L2Normalization
    \/ Merger
    \/ Multiplication
    \/ Normalization
    \/ Output
    \/ Permute
    \/ Pooling2d
    \/ ResizeBilinear
    \/ Softmax
    \/ Splitter
    \/ FakeQuantization
    \/ Reshape
    \/ Floor
    \/ Lstm
    \/ ConvertFp16ToFp32
    \/ ConvertFp32ToFp16
    \/ DirectConvolutionPreferred
    \/ Return

Spec == Init /\ [][Next]_vars

WorkloadNext ==
    \/ Construct
    \/ CtorValidateInputsOutputs
    \/ CtorConvertDescriptor
    \/ CtorBindTensors
    \/ CtorConfigure
    \/ Execute
    \/ Destroy

WorkloadSpec == Init /\ [][WorkloadNext]_vars

----------------------------------------------------------------------------
(* Properties of the support predicates, under Spec *)

Returned(name) == pc = "returned" /\ call.op = name

\* the Is<Operator>SupportedNeon predicates (the preference query is not one)
OracleReturned == pc = "returned" /\ call.op # "DirectConvolutionPreferred"

\* C1: built without NEON support, every Is<Operator>SupportedNeon predicate
\* returns false and sets a supplied reason to the backend-unavailable text.
C1_UnavailableRejectsEverything ==
    (OracleReturned /\ ~neonEnabled) =>
        /\ call.ret = FALSE
        /\ call.ptr => call.reason = BackendUnavailableText

\* C3: ResizeBilinear, FakeQuantization and Lstm are rejected for every input,
\* with or without the backend, and neither a validate function nor the data
\* type dispatch is consulted.
C3_CategoricalRejection ==
    (OracleReturned /\ call.op \in {"ResizeBilinear", "FakeQuantization", "Lstm"}) =>
        /\ call.ret = FALSE
        /\ call.validateCalls = 0
        /\ call.nativeCalls = 0
        /\ call.matrixCalls = 0

C3_Witness ==
    /\ Returned("Lstm")
    /\ neonEnabled
    /\ call.args.input.dataType = "Float32"
    /\ call.args.inputToInputWeights = "nullptr"
    /\ call.ret = FALSE

\* C4: FullyConnected rejects an 8-bit quantized input without calling the
\* validate function, whatever that would have answered; for a float32 input,
\* with the backend built in, it answers as the validate function does.
C4_FullyConnected ==
    Returned("FullyConnected") =>
        /\ call.args.input.dataType = "QuantisedAsymm8" =>
              call.ret = FALSE /\ call.validateCalls = 0 /\ call.nativeCalls = 0
        /\ (call.args.input.dataType = "Float32" /\ neonEnabled) =>
              call.ret = (call.native.code = "OK") /\ call.validateCalls = 1

C4_Witness ==
    /\ Returned("FullyConnected")
    /\ neonEnabled
    /\ call.args.input.dataType = "QuantisedAsymm8"
    /\ call.native.code = "OK"
    /\ call.ret = FALSE

\* the diagnostics that name the "odd number"
OddNumberTexts == {OddText}

\* C5: with the backend built in, IsNormalizationSupportedNeon accepts only an odd window size with the
\* LocalBrightness method; an even size is rejected with the "odd number"
\* diagnostic whatever the validate function answers; an odd size with
\* LocalBrightness is answered as the validate function answers.
C5_NormalizationOddOnly ==
    (Returned("Normalization") /\ neonEnabled) =>
        LET d == call.args.descriptor IN
        /\ call.ret => (d.m_NormSize % 2 = 1 /\ d.m_NormMethodType = "LocalBrightness")
        /\ d.m_NormSize % 2 = 0 =>
              call.ret = FALSE /\ (call.ptr => call.reason \in OddNumberTexts)
        /\ (d.m_NormSize % 2 = 1 /\ d.m_NormMethodType = "LocalBrightness") =>
              call.ret = (call.native.code = "OK")

\* C6: IsNeonDirectConvolutionPreferred is true exactly when the weights are
\* float32, both strides are 1, 2 or 3, the weight dimensions [2] and [3] are
\* 1, the four paddings are 0 and the bias is enabled; and
\* IsConvolution2dSupportedNeon answers as the validate function does, whether
\* or not the convolution is preferred.
C6_DirectConvolutionPreference ==
    /\ Returned("DirectConvolutionPreferred") =>
          LET w == call.args.weights
              d == call.args.descriptor
          IN  call.ret <=>
                /\ w.dataType = "Float32"
                /\ d.m_StrideX \in {1, 2, 3}
                /\ d.m_StrideY \in {1, 2, 3}
                /\ w.shape2 = 1 /\ w.shape3 = 1
                /\ d.m_PadLeft = 0 /\ d.m_PadRight = 0 /\ d.m_PadTop = 0 /\ d.m_PadBottom = 0
                /\ d.m_BiasEnabled
    /\ (Returned("Convolution2d") /\ neonEnabled) => call.ret = (call.native.code = "OK")

\* supported but not preferred
C6_Witness ==
    /\ Returned("Convolution2d")
    /\ call.ret = TRUE
    /\ call.args.descriptor.m_PadLeft = 1
    /\ ~IsNeonDirectConvolutionPreferred(call.args.weights, call.args.descriptor)

\* C7: a predicate that returns true leaves the caller's reason as it was,
\* and no path dereferences a null reason pointer.
C7_ReasonOnlyOnRejection ==
    OracleReturned =>
        /\ call.ret => call.reason = call.reasonIn
        /\ ~call.ptr => call.reason = call.reasonIn
        /\ ~call.nullDeref

C7_Witness ==
    /\ Returned("Pooling2d")
    /\ call.ret = TRUE
    /\ call.ptr
    /\ call.reasonIn = "caller text"
    /\ call.reason = "caller text"

\* the status that the validate function of the last query returns
ValidateStatus ==
    IF call.op = "Activation"
    THEN NeonActivationWorkloadValidate(call.args.input, call.args.output,
                                        call.args.descriptor, call.native)
    ELSE NativeValidate(call.native)

DelegateReturned ==
    /\ pc = "returned"
    /\ neonEnabled
    /\ \/ call.op \in {"Activation", "Addition", "BatchNormalization", "Convolution2d",
                       "DepthwiseConvolution", "L2Normalization", "Multiplication",
                       "Normalization", "Permute", "Pooling2d", "Softmax"}
       \/ call.op = "FullyConnected" /\ call.args.input.dataType # "QuantisedAsymm8"

\* C8: IsWorkloadSupported calls the validate function once, returns true
\* exactly for the error code OK, sets a supplied reason to the error
\* description of a status that is not OK, and leaves it alone for OK.
C8_StatusTranslation ==
    DelegateReturned =>
        /\ call.validateCalls = 1
        /\ call.ret = (ValidateStatus.code = "OK")
        /\ (ValidateStatus.code # "OK" /\ call.ptr) => call.reason = ValidateStatus.desc
        /\ ValidateStatus.code = "OK" => call.reason = call.reasonIn

C8_Witness ==
    /\ DelegateReturned
    /\ call.op = "Softmax"
    /\ call.native.code = "UNSUPPORTED_EXTENSION_USE"
    /\ call.ptr
    /\ call.reasonIn = "caller text"
    /\ call.reason = "native: configuration rejected"
    /\ call.ret = FALSE

----------------------------------------------------------------------------
(* Properties of the activation workload, under WorkloadSpec *)

ArityIsOneOne ==
    Len(workload.m_Data.m_Inputs) = 1 /\ Len(workload.m_Data.m_Outputs) = 1

\* IsActivationSupportedNeon on the configuration the workload is built from
OracleAccepts ==
    IsActivationSupportedNeon(workload.info.input, workload.info.output,
                              workload.m_Data.m_Parameters, workload.native,
                              Ctx([ptr |-> FALSE, reason |-> ""])).ret

C9_ConstructionOrder ==
    workload.at # "None" =>
        /\ workload.at \in {"Convert", "Bind", "Configure", "Ready"} => ArityIsOneOne
        /\ workload.activationLayerInfo # Unset =>
              workload.at \in {"Bind", "Configure", "Ready", "Fatal"}
        /\ workload.input # Unbound =>
              /\ workload.activationLayerInfo # Unset
              /\ workload.at \in {"Configure", "Ready", "Fatal"}
        /\ workload.output # Unbound <=> workload.input # Unbound
        /\ workload.m_ActivationLayer.configured =>
              workload.at = "Ready" /\ workload.input # Unbound
        /\ workload.at = "Ready" =>
              /\ workload.m_ActivationLayer.configured
              /\ workload.m_ActivationLayer.input = workload.m_Data.m_Inputs[1]
              /\ workload.m_ActivationLayer.output = workload.m_Data.m_Outputs[1]
        /\ workload.runs > 0 => workload.at = "Ready"
        /\ (~ArityIsOneOne /\ workload.at # "ValidateInputsOutputs") =>
              /\ workload.at = "Fatal"
              /\ workload.activationLayerInfo = Unset
              /\ workload.input = Unbound
              /\ workload.output = Unbound
              /\ ~workload.m_ActivationLayer.configured

C9_Witness ==
    /\ workload.at = "Fatal"
    /\ Len(workload.m_Data.m_Inputs) = 2
    /\ Len(workload.m_Data.m_Outputs) = 1
    /\ workload.native.code = "OK"
    /\ workload.input = Unbound

\* C10: a run of a Ready workload leaves it Ready with the kernel
\* configuration, the handle bindings and the input storage it had; only the
\* output storage may change.
C10_ExecuteKeepsConfiguration ==
    [][(workload.at = "Ready" /\ workload'.at # "None") =>
          /\ workload' = [workload EXCEPT !.runs = workload'.runs]
          /\ storage'.input = storage.input]_vars

C10_Witness ==
    /\ workload.at = "Ready"
    /\ workload.runs >= 2
    /\ storage.output = 1
    /\ workload.m_ActivationLayer.configured

----------------------------------------------------------------------------
(* The quantized logistic activation, under Spec *)

\* the last query is an activation with an 8-bit quantized input and the
\* logistic function
QuantizedLogisticReturned ==
    /\ Returned("Activation")
    /\ call.args.input.dataType = "QuantisedAsymm8"
    /\ call.args.descriptor.m_Function = "Sigmoid"

\* C11 as stated: NeonActivationWorkloadValidate answers RUNTIME_ERROR with
\* the logistic text for a quantized logistic configuration, without a call
\* of the kernel library, and the kernel library's status for any other; and
\* IsActivationSupportedNeon rejects every quantized logistic configuration
\* with that text.
C11_QuantizedLogisticAsStated ==
    Returned("Activation") =>
        LET v == NeonActivationWorkloadValidate(call.args.input, call.args.output,
                                                call.args.descriptor, call.native)
        IN  IF QuantizedLogisticReturned
            THEN /\ v.code = "RUNTIME_ERROR" /\ v.desc = LogisticText /\ v.nativeCalls = 0
                 /\ call.ret = FALSE
                 /\ call.ptr => call.reason = LogisticText
            ELSE /\ v.code = call.native.code /\ v.desc = call.native.desc
                 /\ v.nativeCalls = 1

\* C11, amended: the same of NeonActivationWorkloadValidate; and
\* IsActivationSupportedNeon rejects every quantized logistic configuration,
\* with the logistic text when the backend is built in and with the
\* backend-unavailable text when it is not; with the backend built in any
\* other configuration is answered from the kernel library's status, asked once.
C11_QuantizedLogistic ==
    Returned("Activation") =>
        LET v == NeonActivationWorkloadValidate(call.args.input, call.args.output,
                                                call.args.descriptor, call.native)
        IN  IF QuantizedLogisticReturned
            THEN /\ v.code = "RUNTIME_ERROR" /\ v.desc = LogisticText /\ v.nativeCalls = 0
                 /\ call.ret = FALSE
                 /\ call.nativeCalls = 0
                 /\ call.ptr => call.reason = IF neonEnabled THEN LogisticText
                                              ELSE BackendUnavailableText
            ELSE /\ v.code = call.native.code /\ v.desc = call.native.desc
                 /\ v.nativeCalls = 1
                 /\ neonEnabled =>
                       /\ call.nativeCalls = 1
                       /\ call.ret = (call.native.code = "OK")
                       /\ (~call.ret /\ call.ptr) => call.reason = call.native.desc

C11_Witness ==
    /\ QuantizedLogisticReturned
    /\ neonEnabled
    /\ call.native.code = "OK"
    /\ call.ptr
    /\ call.reasonIn = "caller text"
    /\ call.reason = LogisticText
    /\ call.ret = FALSE
    /\ call.nativeCalls = 0

====
